---- MODULE Spec2Model ----
(***************************************************************************)
(* Model of xbutil2's "report" option (OO_Reports.cpp): one invocation of  *)
(* OO_Reports::execute, from the option list it receives to its return or  *)
(* to the exception that leaves it, together with the two renderers        *)
(* print_clock_info and print_preemption_telemetry.                        *)
(*                                                                         *)
(* Strings the program compares or transforms (option tokens, the report   *)
(* name, the device id, clock ids) are sequences of one-character strings, *)
(* so that to_lower_copy, iequals and the boost::format field widths are   *)
(* computed.  Fixed message texts are TLA+ strings.                        *)
(***************************************************************************)
EXTENDS Naturals, Sequences, FiniteSets

VARIABLES
  options,       \* _options: the option list handed to execute
  m_device,      \* --device value after process_arguments
  m_action,      \* positional "mode" after process_arguments
  m_help,        \* --help switch after process_arguments
  m_json,        \* --json switch after process_arguments
  pc,            \* position of execute
  device,        \* std::shared_ptr<xrt_core::device> device
  exc,           \* exception in flight inside the try block of lines 161-171
  thrown,        \* exception that left execute
  raised,        \* every exception raised during the invocation, with its origin
  cout,          \* std::cout, a sequence of written items
  cerr,          \* std::cerr, a sequence of written items
  usage,         \* number of printHelp() calls
  fetched,       \* the property trees the renderers fetched, in order
  calls,         \* calls made to the collaborators and renderers, in order
  visited        \* positions execute has been in, in order

vars == <<options, m_device, m_action, m_help, m_json, pc, device, exc, thrown, raised,
          cout, cerr, usage, fetched, calls, visited>>

----------------------------------------------------------------------------
(* Bounds of the model *)

\* largest number of entries of the fetched "clocks" array
MaxClocks == 2

\* largest number of hardware contexts of the fetched "telemetry" array
MaxContexts == 2

----------------------------------------------------------------------------
(* Strings *)

Lower == <<"a","b","c","d","e","f","g","h","i","j","k","l","m",
           "n","o","p","q","r","s","t","u","v","w","x","y","z">>

Upper == <<"A","B","C","D","E","F","G","H","I","J","K","L","M",
           "N","O","P","Q","R","S","T","U","V","W","X","Y","Z">>

\* std::tolower on one character
ToLowerChar(c) ==
  IF \E i \in DOMAIN Upper : Upper[i] = c
    THEN Lower[CHOOSE i \in DOMAIN Upper : Upper[i] = c]
    ELSE c

\* boost::algorithm::to_lower_copy
to_lower_copy(s) == [i \in DOMAIN s |-> ToLowerChar(s[i])]

\* mutant of iequals: std::string operator==, no case folding
iequals_CaseSensitive(a, b) == a = b

\* boost::iequals: same length and equal character by character after folding
iequals(a, b) ==
  /\ Len(a) = Len(b)
  /\ \A i \in DOMAIN a : ToLowerChar(a[i]) = ToLowerChar(b[i])

Spaces(n) == [i \in 1..n |-> " "]

\* boost::format "%-Ns": left-justified, padded to at least w characters
PadRight(s, w) == IF Len(s) >= w THEN s ELSE s \o Spaces(w - Len(s))

\* boost::format "%Ns": right-justified, padded to at least w characters
PadLeft(s, w) == IF Len(s) >= w THEN s ELSE Spaces(w - Len(s)) \o s

\* field widths of "  %-23s: %3s MHz\n"
ClockIdWidth == 23

ClockFreqWidth == 3

\* the literals the code compares against
StrHelp == <<"-","-","h","e","l","p">>

StrJson == <<"-","-","j","s","o","n">>

StrDevice == <<"-","-","d","e","v","i","c","e">>

StrD == <<"-","d">>

StrClocks == <<"c","l","o","c","k","s">>

StrPreemption == <<"p","r","e","e","m","p","t","i","o","n">>

----------------------------------------------------------------------------
(* Inputs *)

\* report names a user may give as the positional mode
Modes ==
  { StrClocks,
    <<"C","L","O","C","K","S">>,
    <<"C","l","o","c","k","s">>,
    StrPreemption,
    <<"P","r","e","e","m","p","t","i","o","n">>,
    <<"P","R","E","E","M","P","T","I","O","N">>,
    <<"b","o","g","u","s">>,
    <<"c","l","o","c","k">>,
    <<"c","l","o","c","k","s","s">> }

\* device ids a user may give
DeviceIds == { <<"0","0",":","D","8">>, <<"0","0",":","d","8">> }

\* ways of writing the options on the command line; <<>> leaves the option out
HelpArgs == { <<>>, <<StrHelp>> }

JsonArgs == { <<>>, <<StrJson>> }

DeviceArgs == { <<>> } \cup { <<StrDevice, d>> : d \in DeviceIds }
                       \cup { <<StrD, d>> : d \in DeviceIds }

ModeArgs == { <<>> } \cup { <<m>> : m \in Modes }

\* option lists: the pieces in either order of --help
OptionLists ==
  { h \o j \o d \o m : h \in HelpArgs, j \in JsonArgs, d \in DeviceArgs, m \in ModeArgs }
  \cup
  { j \o d \o m \o h : h \in HelpArgs, j \in JsonArgs, d \in DeviceArgs, m \in ModeArgs }

----------------------------------------------------------------------------
(* Exceptions *)

\* e.what() of an exception: a message text and the string formatted into it
What(text, arg) == [text |-> text, arg |-> arg]

Exception(type, what) == [type |-> type, what |-> what]

\* no exception
NoExc == Exception("none", What("", <<>>))

\* xrt_core::error(std::errc::operation_canceled)
OperationCanceled == Exception("xrt_core::error", What("operation_canceled", <<>>))

\* what a collaborator may throw: the domain error (a std::runtime_error through
\* std::system_error), another std::runtime_error, or an exception that is neither
CollaboratorFaults ==
  { Exception(t, What("collaborator fault", <<>>)) :
      t \in {"xrt_core::error", "std::runtime_error", "std::exception"} }

\* catch (const std::runtime_error& e), line 155
CaughtAsRuntimeError(e) == e.type \in {"std::runtime_error", "xrt_core::error"}

\* mutant of CaughtAsXrtError: the handler written for std::runtime_error
CaughtAsXrtError_Runtime(e) == e.type \in {"std::runtime_error", "xrt_core::error"}

\* catch (const xrt_core::error& e), line 172
CaughtAsXrtError(e) == e.type = "xrt_core::error"

----------------------------------------------------------------------------
(* Fetched data *)

\* one element of the "clocks" array
ClockEntries ==
  [ id : { <<"A","I","E">>, <<"H","1">> },
    freq_mhz : { <<"5","0">>, <<"1","0","0","0">> } ]

\* one element of the "telemetry" array
Contexts ==
  [ user_task : {"1", "2"},
    slot_index : {"0", "3"},
    preemption_flag_set : {"10"},
    preemption_flag_unset : {"11"},
    preemption_checkpoint_event : {"12"},
    preemption_frame_boundary_events : {"13"} ]

SeqsUpTo(S, n) == UNION { [1..k -> S] : k \in 0..n }

\* property trees get_clock_info may return: with or without a "clocks" child
ClockTrees ==
  { [present |-> FALSE, clocks |-> <<>>] }
  \cup { [present |-> TRUE, clocks |-> a] : a \in SeqsUpTo(ClockEntries, MaxClocks) }

\* property trees preemption_telemetry_info may return
TelemetryTrees ==
  { [present |-> FALSE, telemetry |-> <<>>] }
  \cup { [present |-> TRUE, telemetry |-> a] : a \in SeqsUpTo(Contexts, MaxContexts) }

----------------------------------------------------------------------------
(* Output items *)

Text(s) == [kind |-> "text", text |-> s]

\* boost::property_tree::write_json(std::cout, tree, true)
write_json(tree) == [kind |-> "json", tree |-> tree]

\* a diagnostic: the format string and the e.what() formatted into it
Diagnostic(fmt, what) == [fmt |-> fmt, what |-> what]

\* an exception and the function that raised it
Raised(by, e) == [by |-> by, e |-> e]

\* a call record: the function, its string argument, its boolean argument
Call(fn, arg, flag) == [fn |-> fn, arg |-> arg, flag |-> flag]

----------------------------------------------------------------------------
(* print_clock_info, lines 23-48 *)

\* clocks.get_child("clocks", empty_tree)
ClockArray(clocks) == IF clocks.present THEN clocks.clocks ELSE <<>>

\* boost::format("  %-23s: %3s MHz\n") % id % freq_mhz
ClockLine(pt_clock) ==
  [ kind |-> "clock_line",
    fmt  |-> "  %-23s: %3s MHz\n",
    id   |-> PadRight(pt_clock.id, ClockIdWidth),
    freq |-> PadLeft(pt_clock.freq_mhz, ClockFreqWidth) ]

\* mutant of ClockOutput: the header is streamed after the empty check
ClockOutput_HeaderAfterEmptyCheck(clocks, is_json) ==
  LET pt_clock_array == ClockArray(clocks)
  IN  IF pt_clock_array = <<>>
        THEN <<Text("  No clock information available\n\n")>>
        ELSE IF is_json
          THEN <<write_json(clocks)>>
          ELSE <<Text("Clocks\n")>>
               \o [i \in DOMAIN pt_clock_array |-> ClockLine(pt_clock_array[i])]

\* what print_clock_info writes to std::cout once get_clock_info returned clocks
ClockOutput(clocks, is_json) ==
  LET pt_clock_array == ClockArray(clocks)
      ss == <<Text("Clocks\n")>>
  IN  IF pt_clock_array = <<>>
        THEN ss \o <<Text("  No clock information available\n\n")>>
        ELSE IF is_json
          THEN <<write_json(clocks)>>
          ELSE ss \o [i \in DOMAIN pt_clock_array |-> ClockLine(pt_clock_array[i])]

----------------------------------------------------------------------------
(* print_preemption_telemetry, lines 50-95 *)

\* telemetry_pt.get_child("telemetry", empty_ptree)
TelemetryArray(telemetry_pt) ==
  IF telemetry_pt.present THEN telemetry_pt.telemetry ELSE <<>>

\* preempt_headers: every column left-justified
preempt_headers ==
  << [name |-> "User Task", justification |-> "left"],
     [name |-> "Ctx ID", justification |-> "left"],
     [name |-> "Set Hints", justification |-> "left"],
     [name |-> "Unset Hints", justification |-> "left"],
     [name |-> "Checkpoint Events", justification |-> "left"],
     [name |-> "Frame Boundary Events", justification |-> "left"] >>

\* mutant of rtos_data: the two hint counters in each other's column
rtos_data_Swapped(user_task) ==
  << user_task.user_task,
     user_task.slot_index,
     user_task.preemption_flag_unset,
     user_task.preemption_flag_set,
     user_task.preemption_checkpoint_event,
     user_task.preemption_frame_boundary_events >>

\* rtos_data: the row of one context
rtos_data(user_task) ==
  << user_task.user_task,
     user_task.slot_index,
     user_task.preemption_flag_set,
     user_task.preemption_flag_unset,
     user_task.preemption_checkpoint_event,
     user_task.preemption_frame_boundary_events >>

\* Table2D preemption_table(preempt_headers)
Table2D(headers) == [headers |-> headers, entries |-> <<>>]

\* Table2D::addEntry
addEntry(table, row) == [table EXCEPT !.entries = Append(@, row)]

\* the loop of lines 80-90 over the first n elements of telemetry_array
RECURSIVE AddContexts(_, _, _)
AddContexts(table, telemetry_array, n) ==
  IF n = 0
    THEN table
    ELSE addEntry(AddContexts(table, telemetry_array, n - 1),
                  rtos_data(telemetry_array[n]))

\* Table2D::toString(prefix): the header row, then one row per entry
toString(table, prefix) ==
  [ kind   |-> "table",
    prefix |-> prefix,
    header |-> [i \in DOMAIN table.headers |-> table.headers[i].name],
    rows   |-> table.entries ]

\* mutant of TelemetryOutput: the json test comes before the empty test
TelemetryOutput_JsonFirst(telemetry_pt, is_json) ==
  LET telemetry_array == TelemetryArray(telemetry_pt)
      ss == <<Text("Premption Telemetry Data\n")>>
      preemption_table ==
        AddContexts(Table2D(preempt_headers), telemetry_array, Len(telemetry_array))
  IN  IF is_json
        THEN <<write_json(telemetry_pt)>>
        ELSE IF telemetry_array = <<>>
          THEN ss \o <<Text(" No hardware contexts running on device\n\n")>>
          ELSE ss \o <<toString(preemption_table, "  "), Text("\n")>>

\* what print_preemption_telemetry writes to std::cout once
\* preemption_telemetry_info returned telemetry_pt
TelemetryOutput(telemetry_pt, is_json) ==
  LET telemetry_array == TelemetryArray(telemetry_pt)
      ss == <<Text("Premption Telemetry Data\n")>>
      preemption_table ==
        AddContexts(Table2D(preempt_headers), telemetry_array, Len(telemetry_array))
  IN  IF telemetry_array = <<>>
        THEN ss \o <<Text(" No hardware contexts running on device\n\n")>>
        ELSE IF is_json
          THEN <<write_json(telemetry_pt)>>
          ELSE ss \o <<toString(preemption_table, "  "), Text("\n")>>

----------------------------------------------------------------------------
(* OptionOptions::process_arguments with the options of lines 108-119 *)

Parsed(dev, action, help, json) ==
  [device |-> dev, action |-> action, help |-> help, json |-> json]

\* the members as the constructor leaves them, lines 103-106
Constructed == Parsed(<<>>, <<>>, FALSE, FALSE)

RECURSIVE ParseFrom(_, _, _)
ParseFrom(toks, i, st) ==
  IF i > Len(toks) THEN st
  ELSE IF toks[i] = StrHelp
    THEN ParseFrom(toks, i + 1, [st EXCEPT !.help = TRUE])
  ELSE IF toks[i] = StrJson
    THEN ParseFrom(toks, i + 1, [st EXCEPT !.json = TRUE])
  ELSE IF toks[i] \in {StrDevice, StrD} /\ i < Len(toks)
    THEN ParseFrom(toks, i + 2, [st EXCEPT !.device = toks[i + 1]])
  ELSE ParseFrom(toks, i + 1, [st EXCEPT !.action = toks[i]])

process_arguments(toks) == ParseFrom(toks, 1, Constructed)

----------------------------------------------------------------------------
(* OO_Reports::execute, lines 122-177 *)

Goto(p) == pc' = p /\ visited' = Append(visited, p)

\* printHelp()
printHelp == usage' = usage + 1

\* an exception leaves execute
Throw(e) == thrown' = e /\ Goto("ERROR")

\* std::find(_options.begin(), _options.end(), "--help") != _options.end()
HasHelpOption(toks) == \E i \in DOMAIN toks : toks[i] = StrHelp

\* the handle get_device returns
DeviceHandle == "device"

Init ==
  /\ options \in OptionLists
  /\ m_device = Constructed.device
  /\ m_action = Constructed.action
  /\ m_help = Constructed.help
  /\ m_json = Constructed.json
  /\ pc = "START"
  /\ device = "nullptr"
  /\ exc = NoExc
  /\ thrown = NoExc
  /\ raised = <<>>
  /\ cout = <<>>
  /\ cerr = <<>>
  /\ usage = 0
  /\ fetched = <<>>
  /\ calls = <<>>
  /\ visited = <<"START">>

\* lines 125-129: the verbose trace of the options (verbosity off: no output)
Enter ==
  /\ pc = "START"
  /\ Goto("HELP_CHECK")
  /\ UNCHANGED <<options, m_device, m_action, m_help, m_json, device, exc, thrown,
                 raised, cout, cerr, usage, fetched, calls>>

\* mutant of HelpCheck: the return after printHelp is missing
HelpCheck_NoReturn ==
  /\ pc = "HELP_CHECK"
  /\ \/ /\ HasHelpOption(options)
        /\ printHelp
        /\ Goto("PARSE")
     \/ /\ ~HasHelpOption(options)
        /\ Goto("PARSE")
        /\ UNCHANGED usage
  /\ UNCHANGED <<options, m_device, m_action, m_help, m_json, device, exc, thrown,
                 raised, cout, cerr, fetched, calls>>

\* lines 131-135: honor the help option first
HelpCheck ==
  /\ pc = "HELP_CHECK"
  /\ \/ /\ HasHelpOption(options)
        /\ printHelp
        /\ Goto("DONE")
     \/ /\ ~HasHelpOption(options)
        /\ Goto("PARSE")
        /\ UNCHANGED usage
  /\ UNCHANGED <<options, m_device, m_action, m_help, m_json, device, exc, thrown,
                 raised, cout, cerr, fetched, calls>>

\* lines 137-144: parse the sub-command, then honor m_help.  The list holds no
\* "--help" here (line 132 returned otherwise), so m_help stays false.
ProcessArguments ==
  /\ pc = "PARSE"
  /\ LET st == process_arguments(options)
     IN  /\ m_device' = st.device
         /\ m_action' = st.action
         /\ m_help' = st.help
         /\ m_json' = st.json
         /\ IF st.help
              THEN printHelp /\ Goto("DONE")
              ELSE Goto("MODE_VALIDATE") /\ UNCHANGED usage
  /\ UNCHANGED <<options, device, exc, thrown, raised, cout, cerr, fetched, calls>>

\* mutant of ModeValidate: the throw after printHelp is missing
ModeValidate_NoThrow ==
  /\ pc = "MODE_VALIDATE"
  /\ \/ /\ m_action = <<>>
        /\ cerr' = Append(cerr,
             Diagnostic("ERROR: the required argument for option '--report' is missing\n",
                        What("", <<>>)))
        /\ printHelp
        /\ Goto("DEVICE_RESOLVE")
        /\ UNCHANGED thrown
     \/ /\ m_action # <<>>
        /\ Goto("DEVICE_RESOLVE")
        /\ UNCHANGED <<cerr, usage, thrown>>
  /\ UNCHANGED <<options, m_device, m_action, m_help, m_json, device, exc, raised,
                 cout, fetched, calls>>

\* lines 145-149: the mode is required
ModeValidate ==
  /\ pc = "MODE_VALIDATE"
  /\ \/ /\ m_action = <<>>
        /\ cerr' = Append(cerr,
             Diagnostic("ERROR: the required argument for option '--report' is missing\n",
                        What("", <<>>)))
        /\ printHelp
        /\ Throw(OperationCanceled)
     \/ /\ m_action # <<>>
        /\ Goto("DEVICE_RESOLVE")
        /\ UNCHANGED <<cerr, usage, thrown>>
  /\ UNCHANGED <<options, m_device, m_action, m_help, m_json, device, exc, raised,
                 cout, fetched, calls>>

\* mutant of DeviceResolve: the handler of line 155 does not rethrow
DeviceResolve_NoThrow ==
  /\ pc = "DEVICE_RESOLVE"
  /\ calls' = Append(calls, Call("get_device", to_lower_copy(m_device), TRUE))
  /\ \/ /\ device' = DeviceHandle
        /\ Goto("DISPATCH")
        /\ UNCHANGED <<cerr, thrown, raised>>
     \/ \E e \in CollaboratorFaults :
          /\ CaughtAsRuntimeError(e)
          /\ raised' = Append(raised, Raised("get_device", e))
          /\ cerr' = Append(cerr, Diagnostic("ERROR: %s\n", e.what))
          /\ Goto("DISPATCH")
          /\ UNCHANGED <<device, thrown>>
     \/ \E e \in CollaboratorFaults :
          /\ ~CaughtAsRuntimeError(e)
          /\ raised' = Append(raised, Raised("get_device", e))
          /\ Throw(e)
          /\ UNCHANGED <<device, cerr>>
  /\ UNCHANGED <<options, m_device, m_action, m_help, m_json, exc, cout, usage, fetched>>

\* lines 150-159: find the device of interest
DeviceResolve ==
  /\ pc = "DEVICE_RESOLVE"
  /\ calls' = Append(calls, Call("get_device", to_lower_copy(m_device), TRUE))
  /\ \/ /\ device' = DeviceHandle
        /\ Goto("DISPATCH")
        /\ UNCHANGED <<cerr, thrown, raised>>
     \/ \E e \in CollaboratorFaults :
          /\ CaughtAsRuntimeError(e)
          /\ raised' = Append(raised, Raised("get_device", e))
          /\ cerr' = Append(cerr, Diagnostic("ERROR: %s\n", e.what))
          /\ Throw(OperationCanceled)
          /\ UNCHANGED device
     \/ \E e \in CollaboratorFaults :
          /\ ~CaughtAsRuntimeError(e)
          /\ raised' = Append(raised, Raised("get_device", e))
          /\ Throw(e)
          /\ UNCHANGED <<device, cerr>>
  /\ UNCHANGED <<options, m_device, m_action, m_help, m_json, exc, cout, usage, fetched>>

\* mutant of Renderer: the final else that rejects the name is missing
Renderer_NoReject(action) ==
  IF iequals(action, StrClocks) THEN "print_clock_info"
  ELSE "print_preemption_telemetry"

\* which branch of lines 162-170 the report name takes
Renderer(action) ==
  IF iequals(action, StrClocks) THEN "print_clock_info"
  ELSE IF iequals(action, StrPreemption) THEN "print_preemption_telemetry"
  ELSE "invalid"

\* lines 161-170: enter the renderer the report name selects, or throw
Dispatch ==
  /\ pc = "DISPATCH"
  /\ \/ /\ Renderer(m_action) = "print_clock_info"
        /\ calls' = Append(calls, Call("print_clock_info", <<>>, m_json))
        /\ Goto("PRINT_CLOCK_INFO")
        /\ UNCHANGED <<exc, raised>>
     \/ /\ Renderer(m_action) = "print_preemption_telemetry"
        /\ calls' = Append(calls, Call("print_preemption_telemetry", <<>>, m_json))
        /\ Goto("PRINT_PREEMPTION_TELEMETRY")
        /\ UNCHANGED <<exc, raised>>
     \/ /\ Renderer(m_action) = "invalid"
        /\ exc' = Exception("xrt_core::error", What("Invalid report value: '%s'\n", m_action))
        /\ raised' = Append(raised, Raised("execute", exc'))
        /\ Goto("UNWIND")
        /\ UNCHANGED calls
  /\ UNCHANGED <<options, m_device, m_action, m_help, m_json, device, thrown,
                 cout, cerr, usage, fetched>>

\* lines 23-48: fetch the clocks and render them
PrintClockInfo ==
  /\ pc = "PRINT_CLOCK_INFO"
  /\ calls' = Append(calls, Call("get_clock_info", <<>>, FALSE))
  /\ \/ \E clocks \in ClockTrees :
          /\ fetched' = Append(fetched, clocks)
          /\ cout' = cout \o ClockOutput(clocks, m_json)
          /\ Goto("DONE")
          /\ UNCHANGED <<exc, raised>>
     \/ \E e \in CollaboratorFaults :
          /\ exc' = e
          /\ raised' = Append(raised, Raised("get_clock_info", e))
          /\ Goto("UNWIND")
          /\ UNCHANGED <<fetched, cout>>
  /\ UNCHANGED <<options, m_device, m_action, m_help, m_json, device, thrown,
                 cerr, usage>>

\* lines 50-95: fetch the preemption telemetry and render it
PrintPreemptionTelemetry ==
  /\ pc = "PRINT_PREEMPTION_TELEMETRY"
  /\ calls' = Append(calls, Call("preemption_telemetry_info", <<>>, FALSE))
  /\ \/ \E telemetry_pt \in TelemetryTrees :
          /\ fetched' = Append(fetched, telemetry_pt)
          /\ cout' = cout \o TelemetryOutput(telemetry_pt, m_json)
          /\ Goto("DONE")
          /\ UNCHANGED <<exc, raised>>
     \/ \E e \in CollaboratorFaults :
          /\ exc' = e
          /\ raised' = Append(raised, Raised("preemption_telemetry_info", e))
          /\ Goto("UNWIND")
          /\ UNCHANGED <<fetched, cout>>
  /\ UNCHANGED <<options, m_device, m_action, m_help, m_json, device, thrown,
                 cerr, usage>>

\* mutant of CatchXrtError: the handler does not print the usage
CatchXrtError_NoUsage ==
  /\ pc = "UNWIND"
  /\ CaughtAsXrtError(exc)
  /\ cerr' = Append(cerr, Diagnostic("\nERROR: %s\n", exc.what))
  /\ exc' = NoExc
  /\ Throw(OperationCanceled)
  /\ UNCHANGED <<options, m_device, m_action, m_help, m_json, device, raised,
                 cout, usage, fetched, calls>>

\* lines 172-176: the handler of the dispatch try block
CatchXrtError ==
  /\ pc = "UNWIND"
  /\ CaughtAsXrtError(exc)
  /\ cerr' = Append(cerr, Diagnostic("\nERROR: %s\n", exc.what))
  /\ printHelp
  /\ exc' = NoExc
  /\ Throw(OperationCanceled)
  /\ UNCHANGED <<options, m_device, m_action, m_help, m_json, device, raised,
                 cout, fetched, calls>>

\* lines 161-176: no handler matches, the exception leaves execute as it is
Propagate ==
  /\ pc = "UNWIND"
  /\ ~CaughtAsXrtError(exc)
  /\ exc' = NoExc
  /\ Throw(exc)
  /\ UNCHANGED <<options, m_device, m_action, m_help, m_json, device, raised,
                 cout, cerr, usage, fetched, calls>>

Next ==
  \/ Enter
  \/ HelpCheck
  \/ ProcessArguments
  \/ ModeValidate
  \/ DeviceResolve
  \/ Dispatch
  \/ PrintClockInfo
  \/ PrintPreemptionTelemetry
  \/ CatchXrtError
  \/ Propagate

Spec == Init /\ [][Next]_vars

----------------------------------------------------------------------------
(* Vocabulary of the properties *)

Terminated == pc \in {"DONE", "ERROR"}

\* execute returned normally
Returned == pc = "DONE" /\ thrown = NoExc

\* execute was left by xrt_core::error(std::errc::operation_canceled)
Cancelled == pc = "ERROR" /\ thrown = OperationCanceled

CallsOf(fns) == SelectSeq(calls, LAMBDA c : c.fn \in fns)

Renderers == {"print_clock_info", "print_preemption_telemetry"}

Fetches == {"get_clock_info", "preemption_telemetry_info"}

\* the position execute was in before its current one
Previous(k) == visited[Len(visited) - k]

\* execute ended in ERROR out of MODE-VALIDATE
FailedModeValidate == pc = "ERROR" /\ Previous(1) = "MODE_VALIDATE"

\* execute ended in ERROR out of DEVICE-RESOLVE
FailedDeviceResolve == pc = "ERROR" /\ Previous(1) = "DEVICE_RESOLVE"

\* execute ended in ERROR out of DISPATCH, no renderer entered
FailedDispatch ==
  pc = "ERROR" /\ Previous(1) = "UNWIND" /\ Previous(2) = "DISPATCH"

RequiredArgumentDiagnostic ==
  Diagnostic("ERROR: the required argument for option '--report' is missing\n",
             What("", <<>>))

InvalidReportDiagnostic(name) ==
  Diagnostic("\nERROR: %s\n", What("Invalid report value: '%s'\n", name))

IsInvalidReportDiagnostic(d) ==
  d.what.text = "Invalid report value: '%s'\n"

JsonDocuments == SelectSeq(cout, LAMBDA item : item.kind = "json")

StartsWithClocksHeader ==
  /\ cout # <<>>
  /\ cout[1].kind = "text"
  /\ cout[1].text = "Clocks\n"

\* the report name, folded to lower case, is one of the two supported ones
NamesClocks == to_lower_copy(m_action) = StrClocks

NamesPreemption == to_lower_copy(m_action) = StrPreemption

----------------------------------------------------------------------------
(* C1 *)

\* C1: when the option list contains "--help", whatever else it contains,
\* execute prints the usage once and returns normally; it never parses, never
\* calls get_device, a renderer or a fetch, writes no report and no diagnostic,
\* and it does reach its return.
C1_HelpShortCircuits ==
  HasHelpOption(options) =>
    /\ calls = <<>>
    /\ fetched = <<>>
    /\ cout = <<>>
    /\ cerr = <<>>
    /\ thrown = NoExc
    /\ pc # "ERROR"
    /\ usage <= 1
    /\ pc = "DONE" => usage = 1
    /\ pc # "DONE" => ENABLED Next

C1_Witness ==
  /\ HasHelpOption(options)
  /\ \E i \in DOMAIN options : options[i] = StrJson
  /\ \E i \in DOMAIN options : options[i] \in Modes
  /\ \E i \in DOMAIN options : options[i] \in DeviceIds
  /\ Returned
  /\ usage = 1

----------------------------------------------------------------------------
(* C2 *)

\* C2 as stated: every failure at MODE-VALIDATE, DEVICE-RESOLVE or DISPATCH
\* writes a diagnostic, prints the usage and signals cancellation, and
\* execute goes no further.
C2_Original ==
  (FailedModeValidate \/ FailedDeviceResolve \/ FailedDispatch) =>
    /\ Len(cerr) >= 1
    /\ usage >= 1
    /\ thrown = OperationCanceled
    /\ ~ENABLED Next

\* C2 amended: a failure at MODE-VALIDATE or at DISPATCH (unrecognized name)
\* writes one diagnostic, prints the usage once and signals cancellation; a
\* get_device failure prints no usage: a std::runtime_error writes
\* "ERROR: <what>" and signals cancellation, any other exception leaves
\* execute as it is with no diagnostic.  Execute goes no further in any case.
C2_FailureHandling ==
  /\ FailedModeValidate =>
       /\ cerr = <<RequiredArgumentDiagnostic>>
       /\ usage = 1
       /\ thrown = OperationCanceled
  /\ FailedDispatch =>
       /\ cerr = <<InvalidReportDiagnostic(m_action)>>
       /\ usage = 1
       /\ thrown = OperationCanceled
  /\ FailedDeviceResolve =>
       /\ usage = 0
       /\ Len(raised) = 1
       /\ raised[1].by = "get_device"
       /\ IF raised[1].e.type \in {"std::runtime_error", "xrt_core::error"}
            THEN /\ cerr = <<Diagnostic("ERROR: %s\n", raised[1].e.what)>>
                 /\ thrown = OperationCanceled
            ELSE /\ cerr = <<>>
                 /\ thrown = raised[1].e
  /\ pc = "ERROR" => ~ENABLED Next

C2_Witness ==
  /\ FailedDeviceResolve
  /\ raised[1].e.type = "std::runtime_error"
  /\ Len(cerr) = 1
  /\ usage = 0
  /\ thrown = OperationCanceled

----------------------------------------------------------------------------
(* C3 *)

\* C3 as stated: every invocation without --help whose report name is not
\* clocks or preemption in any letter case ends with exactly one "Invalid
\* report value" diagnostic carrying the name, cancellation, and no renderer run.
C3_Original ==
  ( /\ Terminated
    /\ ~HasHelpOption(options)
    /\ m_action # <<>>
    /\ ~NamesClocks
    /\ ~NamesPreemption ) =>
      /\ Len(SelectSeq(cerr, IsInvalidReportDiagnostic)) = 1
      /\ \E i \in DOMAIN cerr : cerr[i] = InvalidReportDiagnostic(m_action)
      /\ Cancelled
      /\ CallsOf(Renderers) = <<>>

\* C3 amended: the same, for the invocations whose report name is not empty
\* and for which get_device returned a device.
C3_InvalidReport ==
  ( /\ Terminated
    /\ ~HasHelpOption(options)
    /\ m_action # <<>>
    /\ ~NamesClocks
    /\ ~NamesPreemption
    /\ device = DeviceHandle ) =>
      /\ cerr = <<InvalidReportDiagnostic(m_action)>>
      /\ usage = 1
      /\ Cancelled
      /\ CallsOf(Renderers) = <<>>
      /\ CallsOf(Fetches) = <<>>
      /\ cout = <<>>

C3_Witness ==
  /\ m_action = <<"b","o","g","u","s">>
  /\ device = DeviceHandle
  /\ Cancelled
  /\ cerr = <<InvalidReportDiagnostic(<<"b","o","g","u","s">>)>>

----------------------------------------------------------------------------
(* C4 *)

\* C4: with no --help and an empty mode, execute writes the "required argument
\* ... is missing" error, prints the usage, signals cancellation, and never
\* calls get_device, a renderer or a fetch.
C4_MissingMode ==
  ( /\ ~HasHelpOption(options)
    /\ pc \notin {"START", "HELP_CHECK", "PARSE"}
    /\ m_action = <<>> ) =>
      /\ calls = <<>>
      /\ device = "nullptr"
      /\ cout = <<>>
      /\ pc \in {"MODE_VALIDATE", "ERROR"}
      /\ pc = "MODE_VALIDATE" => ENABLED Next
      /\ pc = "ERROR" =>
           /\ cerr = <<RequiredArgumentDiagnostic>>
           /\ usage = 1
           /\ thrown = OperationCanceled

C4_Witness ==
  /\ ~HasHelpOption(options)
  /\ \E i \in DOMAIN options : options[i] = StrJson
  /\ m_action = <<>>
  /\ Cancelled
  /\ cerr = <<RequiredArgumentDiagnostic>>

----------------------------------------------------------------------------
(* C5 *)

\* C5: once a device is resolved and the dispatch is taken, a report name that
\* is "clocks" in any letter case has invoked print_clock_info and nothing
\* else, and one that is "preemption" in any letter case has invoked
\* print_preemption_telemetry and nothing else, each with the --json flag.
C5_DispatchSelects ==
  ( /\ device = DeviceHandle
    /\ pc # "DISPATCH" ) =>
      /\ NamesClocks =>
           CallsOf(Renderers) = <<Call("print_clock_info", <<>>, m_json)>>
      /\ NamesPreemption =>
           CallsOf(Renderers) = <<Call("print_preemption_telemetry", <<>>, m_json)>>

C5_Witness ==
  /\ m_action = <<"P","r","e","e","m","p","t","i","o","n">>
  /\ device = DeviceHandle
  /\ Returned
  /\ CallsOf(Renderers) = <<Call("print_preemption_telemetry", <<>>, m_json)>>

----------------------------------------------------------------------------
(* C6 *)

ClockRendererWrote == CallsOf(Renderers) # <<>> /\ NamesClocks /\ cout # <<>>

\* C6 as stated: whatever print_clock_info writes starts with the "Clocks"
\* header line, in the empty, the JSON and the table branch.
C6_Original == ClockRendererWrote => StartsWithClocksHeader

\* C6 amended: what print_clock_info writes starts with the "Clocks" header
\* line in the empty branch and in the table branch; in the JSON branch
\* (non-empty data, --json) it is the JSON document alone, with no header.
C6_ClocksHeader ==
  ClockRendererWrote =>
    IF m_json /\ ClockArray(fetched[1]) # <<>>
      THEN cout = <<write_json(fetched[1])>>
      ELSE StartsWithClocksHeader

C6_Witness ==
  /\ ClockRendererWrote
  /\ ~m_json
  /\ Len(ClockArray(fetched[1])) = 2
  /\ StartsWithClocksHeader
  /\ Len(cout) = 3

----------------------------------------------------------------------------
(* C7 *)

\* the array the renderer that ran read out of the tree it fetched
FetchedArray ==
  IF NamesClocks THEN ClockArray(fetched[1]) ELSE TelemetryArray(fetched[1])

\* C7: a renderer that fetched an empty collection writes exactly its header
\* and its no-data message, with or without --json; and std::cout holds a JSON
\* document exactly when --json is set and a non-empty collection was
\* fetched, and then it holds one, the fetched tree.
C7_EmptyAndJson ==
  /\ (fetched # <<>> /\ FetchedArray = <<>> /\ NamesClocks) =>
       cout = <<Text("Clocks\n"), Text("  No clock information available\n\n")>>
  /\ (fetched # <<>> /\ FetchedArray = <<>> /\ NamesPreemption) =>
       cout = <<Text("Premption Telemetry Data\n"),
                Text(" No hardware contexts running on device\n\n")>>
  /\ JsonDocuments # <<>> <=> (m_json /\ fetched # <<>> /\ FetchedArray # <<>>)
  /\ JsonDocuments # <<>> => JsonDocuments = <<write_json(fetched[1])>>

C7_Witness ==
  /\ m_json
  /\ NamesPreemption
  /\ fetched # <<>>
  /\ fetched[1].present
  /\ FetchedArray = <<>>
  /\ Len(cout) = 2
  /\ JsonDocuments = <<>>

----------------------------------------------------------------------------
(* C8 *)

ColumnOrder ==
  <<"User Task", "Ctx ID", "Set Hints", "Unset Hints",
    "Checkpoint Events", "Frame Boundary Events">>

\* C8: for N >= 1 fetched contexts and no --json, the output is the header
\* line and one table: its header row is the six columns in their order, it
\* has N data rows, and row i holds context i's user task, slot index, flag-set
\* count, flag-unset count, checkpoint events and frame boundary events.
C8_TelemetryTable ==
  ( /\ NamesPreemption
    /\ ~m_json
    /\ fetched # <<>>
    /\ TelemetryArray(fetched[1]) # <<>> ) =>
      LET ctx == TelemetryArray(fetched[1])
      IN  /\ Len(cout) = 3
          /\ cout[1] = Text("Premption Telemetry Data\n")
          /\ cout[2].kind = "table"
          /\ cout[2].prefix = "  "
          /\ cout[2].header = ColumnOrder
          /\ Len(cout[2].rows) = Len(ctx)
          /\ \A i \in DOMAIN ctx :
               /\ Len(cout[2].rows[i]) = 6
               /\ cout[2].rows[i][1] = ctx[i].user_task
               /\ cout[2].rows[i][2] = ctx[i].slot_index
               /\ cout[2].rows[i][3] = ctx[i].preemption_flag_set
               /\ cout[2].rows[i][4] = ctx[i].preemption_flag_unset
               /\ cout[2].rows[i][5] = ctx[i].preemption_checkpoint_event
               /\ cout[2].rows[i][6] = ctx[i].preemption_frame_boundary_events

C8_Witness ==
  /\ NamesPreemption
  /\ ~m_json
  /\ fetched # <<>>
  /\ Len(TelemetryArray(fetched[1])) = 2
  /\ TelemetryArray(fetched[1])[1] # TelemetryArray(fetched[1])[2]
  /\ Len(cout) = 3
  /\ Len(cout[2].rows) = 2

----------------------------------------------------------------------------
(* C9 *)

\* a fetch inside a renderer threw and execute has ended
FetchFaulted ==
  /\ Terminated
  /\ raised # <<>>
  /\ raised[Len(raised)].by \in Fetches

\* C9: a fault thrown by get_clock_info or preemption_telemetry_info leaves the
\* renderer (nothing is written to std::cout) and reaches the handler of
\* execute; a fault of type xrt_core::error ends in one "ERROR:" diagnostic
\* carrying its message, the usage and cancellation; a fault of any other type
\* leaves execute as it was thrown, with no diagnostic and no usage.
C9_FetchFaults ==
  FetchFaulted =>
    LET e == raised[Len(raised)].e
    IN  /\ Len(raised) = 1
        /\ cout = <<>>
        /\ Previous(1) = "UNWIND"
        /\ pc = "ERROR"
        /\ IF e.type = "xrt_core::error"
             THEN /\ cerr = <<Diagnostic("\nERROR: %s\n", e.what)>>
                  /\ usage = 1
                  /\ thrown = OperationCanceled
             ELSE /\ cerr = <<>>
                  /\ usage = 0
                  /\ thrown = e

C9_Witness ==
  /\ FetchFaulted
  /\ raised[1].by = "preemption_telemetry_info"
  /\ raised[1].e.type = "std::runtime_error"
  /\ thrown = raised[1].e
  /\ cerr = <<>>

----------------------------------------------------------------------------
(* C10 *)

\* the place of a position in START, HELP-CHECK, PARSE, MODE-VALIDATE,
\* DEVICE-RESOLVE, DISPATCH (renderer, handler), DONE or ERROR
Rank(p) ==
  CASE p = "START" -> 0
    [] p = "HELP_CHECK" -> 1
    [] p = "PARSE" -> 2
    [] p = "MODE_VALIDATE" -> 3
    [] p = "DEVICE_RESOLVE" -> 4
    [] p = "DISPATCH" -> 5
    [] p \in {"PRINT_CLOCK_INFO", "PRINT_PREEMPTION_TELEMETRY"} -> 6
    [] p = "UNWIND" -> 7
    [] p \in {"DONE", "ERROR"} -> 8

\* the index of the first call of fn, 0 when there is none
FirstCall(fn) ==
  IF \E i \in DOMAIN calls : calls[i].fn = fn
    THEN CHOOSE i \in DOMAIN calls :
           calls[i].fn = fn /\ \A j \in 1..(i - 1) : calls[j].fn # fn
    ELSE 0

\* C10: the positions of execute are visited in the order HELP-CHECK, PARSE,
\* MODE-VALIDATE, DEVICE-RESOLVE, DISPATCH, none twice and none skipped except
\* by ending; a renderer runs only with a non-empty mode and after get_device
\* returned a device, a fetch only inside a renderer; get_device, the renderers
\* and the fetches are each called at most once; and execute always goes on
\* until it ends in DONE or in ERROR.
C10_LinearFlow ==
  /\ \A i \in 1..(Len(visited) - 1) :
       /\ Rank(visited[i]) < Rank(visited[i + 1])
       /\ Rank(visited[i + 1]) <= 5 => Rank(visited[i + 1]) = Rank(visited[i]) + 1
  /\ visited[Len(visited)] = pc
  /\ Len(CallsOf({"get_device"})) <= 1
  /\ Len(CallsOf(Renderers)) <= 1
  /\ Len(CallsOf(Fetches)) <= 1
  /\ CallsOf(Renderers) # <<>> =>
       /\ m_action # <<>>
       /\ device = DeviceHandle
       /\ FirstCall("get_device") = 1
       /\ \E i \in DOMAIN visited : visited[i] = "DISPATCH"
  /\ CallsOf(Fetches) # <<>> =>
       /\ Len(calls) = 3
       /\ calls[2].fn \in Renderers
       /\ calls[3].fn \in Fetches
  /\ Terminated \/ ENABLED Next
  /\ Terminated => ~ENABLED Next
  /\ pc = "DONE" <=> (Terminated /\ thrown = NoExc)

C10_Witness ==
  /\ visited = <<"START", "HELP_CHECK", "PARSE", "MODE_VALIDATE", "DEVICE_RESOLVE",
                 "DISPATCH", "PRINT_CLOCK_INFO", "DONE">>
  /\ Len(calls) = 3
  /\ Returned

====
